---- MODULE Spec2Model ----
(***************************************************************************)
(* FocusFlow task optimizer: the 0/1 knapsack solver (backend/optimizer.py) *)
(* and the fractional knapsack solver (backend/fractional_optimize.py),     *)
(* called on a caller-owned task list; the optimize endpoint that           *)
(* validates a request and dispatches to them (api/optimize.py); and the    *)
(* in-memory plan store (backend/firebase_connect.py).                      *)
(*                                                                          *)
(* Numbers.  The solvers compute on Python ints and floats.  Every number   *)
(* that can be fractional (durations, capacity, weights, values,            *)
(* efficiencies, fractions) is modelled as an exact rational <<n, d>> in    *)
(* lowest terms with d > 0, so that two numbers are equal exactly when      *)
(* their pairs are equal.  Binary floating-point rounding error is not      *)
(* modelled.  Priorities, DP weights, DP capacities and counts are          *)
(* integers, as in the code.                                                *)
(*                                                                          *)
(* Task records.  A task is a record (a Python dict).  Assigning a key      *)
(* adds the field when it is missing.  The "name" field stands for the      *)
(* identity of the dict object: the caller's tasks have distinct names.     *)
(* Sequences are 1-based here and 0-based in the code: position i here is   *)
(* index i - 1 there.                                                       *)
(***************************************************************************)
EXTENDS Integers, Sequences, FiniteSets, TLC

(***************************************************************************)
(* Bounds of the model                                                      *)
(***************************************************************************)
\* longest task list the caller passes
MaxTasks == 2
\* most plans saved to the in-memory store
MaxSaves == 3
\* largest limit get_user_plans is called with
MaxLimit == 2

(***************************************************************************)
(* Exact rational arithmetic                                                *)
(***************************************************************************)
Abs(x) == IF x < 0 THEN -x ELSE x

RECURSIVE GCD(_, _)
GCD(a, b) == IF b = 0 THEN a ELSE GCD(b, a % b)

\* the rational n/d (d # 0) in lowest terms with a positive denominator
Rat(n, d) ==
    LET g == GCD(Abs(n), Abs(d))
        s == IF d < 0 THEN -1 ELSE 1
    IN  <<(s * n) \div g, (s * d) \div g>>

\* an integer as a rational
R(k) == <<k, 1>>

RAdd(a, b) == Rat(a[1] * b[2] + b[1] * a[2], a[2] * b[2])
RSub(a, b) == Rat(a[1] * b[2] - b[1] * a[2], a[2] * b[2])
RMul(a, b) == Rat(a[1] * b[1], a[2] * b[2])
\* a / b, b # 0
RDiv(a, b) == Rat(a[1] * b[2], a[2] * b[1])
RLe(a, b) == a[1] * b[2] <= b[1] * a[2]
RLt(a, b) == a[1] * b[2] < b[1] * a[2]
RMax(a, b) == IF RLt(a, b) THEN b ELSE a

\* Python int(x): truncation toward zero
PyInt(a) == IF a[1] >= 0 THEN a[1] \div a[2] ELSE -((-a[1]) \div a[2])

\* the integer nearest to the rational a, a tie going to the even one
RoundHalfEven(a) ==
    LET fl == a[1] \div a[2]
        twice == 2 * (a[1] - fl * a[2])
    IN  IF twice < a[2] THEN fl
        ELSE IF twice > a[2] THEN fl + 1
        ELSE IF fl % 2 = 0 THEN fl ELSE fl + 1

\* Python round(x, k) with scale = 10^k
Round(a, scale) == Rat(RoundHalfEven(RMul(a, R(scale))), scale)

RECURSIVE RSum(_)
RSum(s) == IF s = <<>> THEN R(0) ELSE RAdd(RSum(SubSeq(s, 1, Len(s) - 1)), s[Len(s)])

(***************************************************************************)
(* Task records and the value model                                         *)
(***************************************************************************)
\* dict[key] = v
SetField(t, key, v) == (key :> v) @@ t

category_weights ==
    [work |-> Rat(12, 10), health |-> Rat(11, 10), learning |-> Rat(115, 100),
     chore |-> Rat(9, 10), relaxation |-> Rat(8, 10)]

\* category_weights.get(category, 1.0)
CategoryWeight(category) ==
    IF category \in DOMAIN category_weights THEN category_weights[category] ELSE R(1)

\* priority * category_weight
TaskValue(task) == RMul(R(task.priority), CategoryWeight(task.category))

\* the loop of optimize_tasks that stores "value" in every caller's task
AnnotateValue(ts) == [i \in DOMAIN ts |-> SetField(ts[i], "value", TaskValue(ts[i]))]

Durations(ts) == [i \in DOMAIN ts |-> ts[i].duration]
Values(ts) == [i \in DOMAIN ts |-> ts[i].value]

(***************************************************************************)
(* optimize_tasks: 0/1 knapsack by dynamic programming                      *)
(***************************************************************************)
\* the early return taken for a negative capacity only
Degenerate_StrictZero(ts, available_time) == ts = <<>> \/ RLt(available_time, R(0))

\* the early return of both solvers: "not tasks or available_time <= 0"
Degenerate(ts, available_time) == ts = <<>> \/ RLe(available_time, R(0))

\* DPRow with the fit test "weight < w": a task that fills w exactly is left out
DPRow_StrictFit(prev, W, task) ==
    LET weight == PyInt(task.duration)
        value == task.value
    IN  [w \in 0..W |->
            IF weight < w
            THEN RMax(prev[w], RAdd(prev[w - weight], value))
            ELSE prev[w]]

\* dp[i][w] for w in 0..W, from row dp[i-1] (prev) and task i
DPRow(prev, W, task) ==
    LET weight == PyInt(task.duration)
        value == task.value
    IN  [w \in 0..W |->
            IF weight <= w
            THEN RMax(prev[w], RAdd(prev[w - weight], value))
            ELSE prev[w]]

\* the rows dp[0], ..., dp[n] (row i at position i + 1)
RECURSIVE DPTable(_, _, _)
DPTable(ts, W, n) ==
    IF n = 0 THEN << [w \in 0..W |-> R(0)] >>
    ELSE LET rows == DPTable(ts, W, n - 1)
         IN  Append(rows, DPRow(rows[n], W, ts[n]))

\* dp[i-1][w - weight] is read outside the row: Python raises IndexError
\* (w - weight is never negative where it is read, since weight <= w there)
IndexError(ts, W) ==
    \E i \in DOMAIN ts, w \in 0..W :
        LET weight == PyInt(ts[i].duration)
        IN  weight <= w /\ w - weight > W

\* Backtrack taking task i whenever taking it achieves dp[i][w], also when
\* leaving it out achieves as much
RECURSIVE Backtrack_TakeIfAchieves(_, _, _, _)
Backtrack_TakeIfAchieves(ts, dp, i, w) ==
    IF i = 0 THEN <<>>
    ELSE LET weight == PyInt(ts[i].duration)
         IN  IF weight <= w /\ dp[i + 1][w] = RAdd(dp[i][w - weight], ts[i].value)
             THEN Append(Backtrack_TakeIfAchieves(ts, dp, i - 1, w - weight), i)
             ELSE Backtrack_TakeIfAchieves(ts, dp, i - 1, w)

\* the backward scan over rows i, i-1, ..., 1 from capacity w; the selected
\* positions in increasing order (selected_indices after reverse())
RECURSIVE Backtrack(_, _, _, _)
Backtrack(ts, dp, i, w) ==
    IF i = 0 THEN <<>>
    ELSE IF dp[i + 1][w] # dp[i][w]
         THEN Append(Backtrack(ts, dp, i - 1, w - PyInt(ts[i].duration)), i)
         ELSE Backtrack(ts, dp, i - 1, w)

\* selected_indices of optimize_tasks for the annotated tasks ts
SelectedIndices(ts, available_time) ==
    LET W == PyInt(available_time)
    IN  Backtrack(ts, DPTable(ts, W, Len(ts)), Len(ts), W)

\* [s[i] for i in idx]
Pick(s, idx) == [k \in DOMAIN idx |-> s[idx[k]]]

InSeq(x, s) == \E k \in DOMAIN s : s[k] = x

\* the positions 1..n not in idx, in increasing order
RECURSIVE NotSelected(_, _)
NotSelected(n, idx) ==
    IF n = 0 THEN <<>>
    ELSE IF InSeq(n, idx) THEN NotSelected(n - 1, idx)
         ELSE Append(NotSelected(n - 1, idx), n)

(***************************************************************************)
(* The explanation.  The text is modelled as the sequence of its parts, in  *)
(* the order the code appends them, each part a record of the numbers the   *)
(* text embeds.                                                             *)
(***************************************************************************)
\* f"{minutes / 60:.1f}"
Hours(minutes) == Round(RDiv(minutes, R(60)), 10)

\* category_counts: one <<category, count>> per category, in first-seen order
RECURSIVE CategoryCounts(_)
CategoryCounts(ts) ==
    IF ts = <<>> THEN <<>>
    ELSE LET before == CategoryCounts(SubSeq(ts, 1, Len(ts) - 1))
             cat == ts[Len(ts)].category
         IN  IF \E k \in DOMAIN before : before[k][1] = cat
             THEN [k \in DOMAIN before |->
                     IF before[k][1] = cat THEN <<cat, before[k][2] + 1>> ELSE before[k]]
             ELSE Append(before, <<cat, 1>>)

\* the early return's explanation
NoOptimization == << [part |-> "none", text |-> "No tasks to optimize or no available time."] >>

WeightsPart == << [part |-> "weights", weights |-> category_weights] >>

generate_explanation(optimized_tasks, skipped_tasks, total_time, available_time) ==
    << [part |-> "overview", solver |-> "0/1", minutes |-> available_time,
        hours |-> Hours(available_time)] >>
    \o (IF optimized_tasks # <<>>
        THEN << [part |-> "selected", count |-> Len(optimized_tasks),
                 minutes |-> total_time, hours |-> Hours(total_time),
                 free |-> RSub(available_time, total_time)],
                [part |-> "categories", counts |-> CategoryCounts(optimized_tasks)] >>
        ELSE <<>>)
    \o (IF skipped_tasks # <<>>
        THEN << [part |-> "skipped", count |-> Len(skipped_tasks)] >>
             \o (IF \E k \in DOMAIN skipped_tasks : skipped_tasks[k].priority >= 4
                 THEN << [part |-> "high_priority_skipped"] >>
                 ELSE <<>>)
        ELSE <<>>)
    \o WeightsPart

\* the dict optimize_tasks returns for the caller's tasks ts0, when it returns
optimize_tasks(ts0, available_time) ==
    IF Degenerate(ts0, available_time)
    THEN [optimized_tasks |-> <<>>, skipped_tasks |-> ts0, total_time |-> R(0),
          total_value |-> R(0), explanation |-> NoOptimization]
    ELSE LET ts == AnnotateValue(ts0)
             selected_indices == SelectedIndices(ts, available_time)
             optimized_tasks == Pick(ts, selected_indices)
             skipped_tasks == Pick(ts, NotSelected(Len(ts), selected_indices))
             total_time == RSum(Durations(optimized_tasks))
             total_value == RSum(Values(optimized_tasks))
         IN  [optimized_tasks |-> optimized_tasks,
              skipped_tasks |-> skipped_tasks,
              total_time |-> total_time,
              total_value |-> Round(total_value, 100),
              explanation |-> generate_explanation(optimized_tasks, skipped_tasks,
                                                   total_time, available_time)]

(***************************************************************************)
(* optimize_tasks_fractional: greedy fractional knapsack                    *)
(***************************************************************************)
\* value / duration if duration > 0 else 0
Efficiency(value, duration) == IF RLt(R(0), duration) THEN RDiv(value, duration) ELSE R(0)

\* the loop that stores "value" and "efficiency" in every caller's task
AnnotateEfficiency(ts) ==
    [i \in DOMAIN ts |->
        LET v == TaskValue(ts[i])
        IN  SetField(SetField(ts[i], "value", v),
                     "efficiency", Efficiency(v, ts[i].duration))]

\* the order of a sort that is ascending and then reversed: of two tasks of
\* equal efficiency the later goes first
SortsBefore_TiesReversed(x, y) == RLe(y.efficiency, x.efficiency)

\* the sort places x before y
SortsBefore(x, y) == RLt(y.efficiency, x.efficiency)

\* sorted(tasks, key=efficiency, reverse=True): stable, so a task goes after
\* every earlier task that it does not strictly precede
RECURSIVE Sorted(_)
Sorted(ts) ==
    IF ts = <<>> THEN <<>>
    ELSE LET before == Sorted(SubSeq(ts, 1, Len(ts) - 1))
             t == ts[Len(ts)]
             keep == {k \in 0..Len(before) :
                        \A j \in 1..k : ~SortsBefore(t, before[j])}
             at == CHOOSE k \in keep : \A m \in keep : m <= k
         IN  SubSeq(before, 1, at) \o <<t>> \o SubSeq(before, at + 1, Len(before))

\* PartialTask keeping the whole task's value
PartialTask_FullValue(task, remaining_time) ==
    LET fraction == RDiv(remaining_time, task.duration)
    IN  SetField(SetField(SetField(SetField(task,
            "duration", remaining_time),
            "is_partial", TRUE),
            "original_duration", task.duration),
            "fraction", fraction)

\* the partial copy of task that fills remaining_time
PartialTask(task, remaining_time) ==
    LET fraction == RDiv(remaining_time, task.duration)
    IN  SetField(SetField(SetField(SetField(SetField(task,
            "duration", remaining_time),
            "value", RMul(task.value, fraction)),
            "is_partial", TRUE),
            "original_duration", task.duration),
            "fraction", fraction)

\* GreedyStep without "total_time += remaining_time" for the partial task
GreedyStep_TimeNotAdded(st, task) ==
    IF RLe(task.duration, st.remaining_time)
    THEN [st EXCEPT !.optimized_tasks = Append(@, task),
                    !.remaining_time = RSub(@, task.duration),
                    !.total_time = RAdd(@, task.duration),
                    !.total_value = RAdd(@, task.value)]
    ELSE IF RLt(R(0), st.remaining_time)
    THEN LET partial_task == PartialTask(task, st.remaining_time)
         IN  [st EXCEPT !.optimized_tasks = Append(@, partial_task),
                        !.total_value = RAdd(@, partial_task.value),
                        !.remaining_time = R(0),
                        !.partial_inclusion = TRUE]
    ELSE [st EXCEPT !.skipped_tasks = Append(@, task)]

\* GreedyStep without "remaining_time = 0" after the partial task
GreedyStep_KeepsRemaining(st, task) ==
    IF RLe(task.duration, st.remaining_time)
    THEN [st EXCEPT !.optimized_tasks = Append(@, task),
                    !.remaining_time = RSub(@, task.duration),
                    !.total_time = RAdd(@, task.duration),
                    !.total_value = RAdd(@, task.value)]
    ELSE IF RLt(R(0), st.remaining_time)
    THEN LET partial_task == PartialTask(task, st.remaining_time)
         IN  [st EXCEPT !.optimized_tasks = Append(@, partial_task),
                        !.total_value = RAdd(@, partial_task.value),
                        !.total_time = RAdd(@, st.remaining_time),
                        !.partial_inclusion = TRUE]
    ELSE [st EXCEPT !.skipped_tasks = Append(@, task)]

\* one iteration of the greedy loop on the loop state st
GreedyStep(st, task) ==
    IF RLe(task.duration, st.remaining_time)
    THEN [st EXCEPT !.optimized_tasks = Append(@, task),
                    !.remaining_time = RSub(@, task.duration),
                    !.total_time = RAdd(@, task.duration),
                    !.total_value = RAdd(@, task.value)]
    ELSE IF RLt(R(0), st.remaining_time)
    THEN LET partial_task == PartialTask(task, st.remaining_time)
         IN  [st EXCEPT !.optimized_tasks = Append(@, partial_task),
                        !.total_value = RAdd(@, partial_task.value),
                        !.total_time = RAdd(@, st.remaining_time),
                        !.remaining_time = R(0),
                        !.partial_inclusion = TRUE]
    ELSE [st EXCEPT !.skipped_tasks = Append(@, task)]

\* the loop state after the first n tasks of sorted_tasks
RECURSIVE GreedyLoop(_, _, _)
GreedyLoop(sorted_tasks, available_time, n) ==
    IF n = 0
    THEN [optimized_tasks |-> <<>>, skipped_tasks |-> <<>>,
          remaining_time |-> available_time, total_value |-> R(0),
          total_time |-> R(0), partial_inclusion |-> FALSE]
    ELSE GreedyStep(GreedyLoop(sorted_tasks, available_time, n - 1), sorted_tasks[n])

\* t.get("is_partial", False)
IsPartial(t) == IF "is_partial" \in DOMAIN t THEN t.is_partial ELSE FALSE

\* full_tasks and partial_tasks of generate_explanation_fractional
full_tasks(optimized_tasks) == SelectSeq(optimized_tasks, LAMBDA t : ~IsPartial(t))
partial_tasks(optimized_tasks) == SelectSeq(optimized_tasks, IsPartial)

generate_explanation_fractional(optimized_tasks, skipped_tasks, total_time, available_time, partial_inclusion) ==
    << [part |-> "overview", solver |-> "fractional", minutes |-> available_time,
        hours |-> Hours(available_time)] >>
    \o (IF optimized_tasks # <<>>
        THEN << [part |-> "selected_full", count |-> Len(full_tasks(optimized_tasks))] >>
             \o (IF partial_tasks(optimized_tasks) # <<>>
                 THEN << [part |-> "selected_partial",
                          count |-> Len(partial_tasks(optimized_tasks))] >>
                 ELSE <<>>)
             \o << [part |-> "totals", minutes |-> total_time, hours |-> Hours(total_time),
                    free |-> RSub(available_time, total_time)],
                   [part |-> "categories", counts |-> CategoryCounts(optimized_tasks)] >>
             \o (IF partial_inclusion THEN << [part |-> "partial_note"] >> ELSE <<>>)
        ELSE <<>>)
    \o (IF skipped_tasks # <<>>
        THEN << [part |-> "skipped", count |-> Len(skipped_tasks)] >>
        ELSE <<>>)
    \o WeightsPart

\* the dict optimize_tasks_fractional returns for the caller's tasks ts0
optimize_tasks_fractional(ts0, available_time) ==
    IF Degenerate(ts0, available_time)
    THEN [optimized_tasks |-> <<>>, skipped_tasks |-> ts0, total_time |-> R(0),
          total_value |-> R(0), explanation |-> NoOptimization]
    ELSE LET sorted_tasks == Sorted(AnnotateEfficiency(ts0))
             st == GreedyLoop(sorted_tasks, available_time, Len(sorted_tasks))
         IN  [optimized_tasks |-> st.optimized_tasks,
              skipped_tasks |-> st.skipped_tasks,
              total_time |-> st.total_time,
              total_value |-> Round(st.total_value, 100),
              explanation |-> generate_explanation_fractional(
                                  st.optimized_tasks, st.skipped_tasks, st.total_time,
                                  available_time, st.partial_inclusion),
              partial_inclusion |-> st.partial_inclusion]

(***************************************************************************)
(* The caller: a task list and a capacity, and the solver calls on them     *)
(***************************************************************************)
VARIABLES
    tasks,            \* the caller's task list (the dicts the solvers are handed)
    available_time,   \* the caller's capacity, in minutes
    solver,           \* the solver called last: "none", "0/1" or "fractional"
    outcome,          \* how that call ended: "none", "returned" or "IndexError"
    result,           \* the dict it returned (NoResult when it returned none)
    first_result,     \* per solver, how its first call ended and what it returned
    request,          \* the JSON body the optimize endpoint received
    response,         \* the status and body the endpoint answered with
    in_memory_storage,\* firebase_connect._in_memory_storage
    saved,            \* what each save_optimization_plan call was given and returned
    loaded            \* the last get_user_plans call and what it returned

vars == <<tasks, available_time, solver, outcome, result, first_result,
          request, response, in_memory_storage, saved, loaded>>

caller == <<tasks, available_time, solver, outcome, result>>
transport == <<request, response>>
store == <<in_memory_storage, saved, loaded>>

NoResult == [no_result |-> TRUE]
NoCalls == [s \in {"0/1", "fractional"} |-> [outcome |-> "none", result |-> NoResult]]
NoRequest == [no_request |-> TRUE]
NoResponse == [no_response |-> TRUE]
NoLoad == [no_load |-> TRUE]

\* no task list has been handed to a solver
NoCaller ==
    /\ tasks = <<>>
    /\ available_time = R(0)
    /\ solver = "none"
    /\ outcome = "none"
    /\ result = NoResult

\* no request has reached the endpoint
NoTransport == request = NoRequest /\ response = NoResponse

\* the module-level dict as the import leaves it, and no call made yet
EmptyStore == in_memory_storage = <<>> /\ saved = <<>> /\ loaded = NoLoad

\* The inputs the caller draws from.  On every list of up to three tasks over
\* these domains
\* the source, run on floats, returns what it returns on exact rationals
\* (the same selection, order, totals and rounded value), so that the exact
\* arithmetic of this module is the arithmetic of the code on these inputs.
DurationDomain == {R(-1), R(0), R(1), Rat(3, 2), R(3)}
PriorityDomain == {2, 4, 5}
CategoryDomain == {"work", "chore"}
CapacityDomain == {R(-1), R(0), R(1), R(2), Rat(5, 2), R(3)}
Names == <<"a", "b", "c", "d", "e", "f">>

TaskInputs == [duration : DurationDomain, priority : PriorityDomain, category : CategoryDomain]

\* the task lists of length n, the task at position i named Names[i]
TaskLists(n) ==
    {[i \in 1..n |-> SetField(f[i], "name", Names[i])] : f \in [1..n -> TaskInputs]}

Init ==
    /\ \E n \in 0..MaxTasks : tasks \in TaskLists(n)
    /\ available_time \in CapacityDomain
    /\ solver = "none"
    /\ outcome = "none"
    /\ result = NoResult
    /\ first_result = NoCalls
    /\ NoTransport
    /\ EmptyStore

\* a call of optimize_tasks(tasks, available_time)
OptimizeTasks ==
    /\ solver' = "0/1"
    /\ UNCHANGED available_time
    /\ IF Degenerate(tasks, available_time)
       THEN /\ UNCHANGED tasks
            /\ outcome' = "returned"
            /\ result' = optimize_tasks(tasks, available_time)
       ELSE /\ tasks' = AnnotateValue(tasks)
            /\ IF IndexError(tasks, PyInt(available_time))
               THEN outcome' = "IndexError" /\ result' = NoResult
               ELSE outcome' = "returned" /\ result' = optimize_tasks(tasks, available_time)

\* a call of optimize_tasks_fractional(tasks, available_time)
OptimizeTasksFractional ==
    /\ solver' = "fractional"
    /\ UNCHANGED available_time
    /\ tasks' = IF Degenerate(tasks, available_time) THEN tasks ELSE AnnotateEfficiency(tasks)
    /\ outcome' = "returned"
    /\ result' = optimize_tasks_fractional(tasks, available_time)

Next ==
    \/ OptimizeTasks /\ UNCHANGED <<first_result, transport, store>>
    \/ OptimizeTasksFractional /\ UNCHANGED <<first_result, transport, store>>

Spec == Init /\ [][Next]_vars

(***************************************************************************)
(* The same calls, with the first return of each solver kept for comparison *)
(***************************************************************************)
\* keeps what the call just made returned, when it is its solver's first call
RecordFirstResult ==
    first_result' =
        IF first_result[solver'].outcome = "none"
        THEN [first_result EXCEPT ![solver'] = [outcome |-> outcome', result |-> result']]
        ELSE first_result

NextCalls ==
    \/ OptimizeTasks /\ RecordFirstResult /\ UNCHANGED <<transport, store>>
    \/ OptimizeTasksFractional /\ RecordFirstResult /\ UNCHANGED <<transport, store>>

SpecCalls == Init /\ [][NextCalls]_vars

(***************************************************************************)
(* api/optimize.py: handler.do_POST.  The body is a JSON object: a function *)
(* on the keys it has.  A JSON number is a rational <<n, d>>; a JSON string *)
(* sent where a number is expected is the 1-tuple <<s>>.                    *)
(***************************************************************************)
JSONString(s) == <<s>>
IsNumber(v) == Len(v) = 2

\* d.get(key, default)
Get(d, key, default) == IF key \in DOMAIN d THEN d[key] ELSE default

\* d without the key
Without(d, key) == [k \in DOMAIN d \ {key} |-> d[k]]

required_fields == <<"name", "duration", "priority", "category">>
valid_categories == {"work", "health", "learning", "chore", "relaxation"}

\* send_error_response(code, message)
ErrorResponse(code, message) == [status |-> code, body |-> [error |-> message]]

InternalServerError == ErrorResponse(500, "Internal server error")
Passed == [status |-> 200]

\* the checks of one task, in the order the loop body makes them; comparing a
\* string with 0 raises TypeError, which the handler answers with a 500
ValidateTask(task) ==
    LET missing == {i \in DOMAIN required_fields : required_fields[i] \notin DOMAIN task}
        first == CHOOSE i \in missing : \A j \in missing : i <= j
    IN  IF missing # {}
        THEN [status |-> 400,
              body |-> [error |-> "Task missing required field", field |-> required_fields[first]]]
        ELSE IF ~IsNumber(task.duration) THEN InternalServerError
        ELSE IF RLe(task.duration, R(0))
             THEN ErrorResponse(400, "Task duration must be positive")
        ELSE IF ~(1 <= task.priority /\ task.priority <= 5)
             THEN ErrorResponse(400, "Task priority must be between 1 and 5")
        ELSE IF task.category \notin valid_categories
             THEN ErrorResponse(400, "Invalid task category")
        ELSE Passed

\* the validation loop from task i on: the first answer that is not a pass
RECURSIVE ValidateTasks(_, _)
ValidateTasks(ts, i) ==
    IF i > Len(ts) THEN Passed
    ELSE IF ValidateTask(ts[i]) # Passed THEN ValidateTask(ts[i])
    ELSE ValidateTasks(ts, i + 1)

RequestTasks(data) == Get(data, "tasks", <<>>)
RequestTime(data) == Get(data, "available_time", R(480))
RequestMethod(data) == Get(data, "method", "0/1")

\* everything do_POST checks before it dispatches
Validate(data) ==
    IF DOMAIN data = {} THEN ErrorResponse(400, "No data provided")
    ELSE IF RequestTasks(data) = <<>> THEN ErrorResponse(400, "No tasks provided")
    ELSE IF RLe(RequestTime(data), R(0))
         THEN ErrorResponse(400, "Available time must be positive")
    ELSE ValidateTasks(RequestTasks(data), 1)

\* the bodies clients send
RequestDurations == {R(0), R(1), JSONString("30")}
RequestPriorities == {0, 1, 5, 6}
RequestCategories == {"work", "errand"}
RequestTimes == {R(0), R(2)}
RequestMethods == {"0/1", "fractional", "greedy"}

\* a task named name: with every field, or with one field missing
RequestTaskForms(name) ==
    LET complete == {SetField(t, "name", name) :
                        t \in [duration : RequestDurations, priority : RequestPriorities,
                               category : RequestCategories]}
    IN  complete \cup {Without(t, required_fields[i]) : t \in complete, i \in DOMAIN required_fields}

RequestTaskLists(n) ==
    {f \in [1..n -> UNION {RequestTaskForms(Names[i]) : i \in 1..n}] :
        \A i \in 1..n : f[i] \in RequestTaskForms(Names[i])}

\* a body of up to longest tasks with every key, or with some keys missing
\* ({} when all are)
Requests(longest) ==
    LET complete == UNION {[tasks : RequestTaskLists(n), available_time : RequestTimes,
                            method : RequestMethods] : n \in 0..longest}
    IN  {[k \in DOMAIN r \ K |-> r[k]] :
            r \in complete, K \in SUBSET {"tasks", "available_time", "method"}}

InitAPI ==
    /\ request \in Requests(MaxTasks)
    /\ response = NoResponse
    /\ NoCaller
    /\ first_result = NoCalls
    /\ EmptyStore

\* the handler, from the parsed body to the response it writes
do_POST ==
    /\ response = NoResponse
    /\ UNCHANGED <<request, first_result, store>>
    /\ IF Validate(request) # Passed
       THEN /\ response' = Validate(request)
            /\ UNCHANGED caller
       ELSE LET ts == RequestTasks(request)
                time == RequestTime(request)
            IN  /\ available_time' = time
                /\ IF RequestMethod(request) = "fractional"
                   THEN /\ solver' = "fractional"
                        /\ tasks' = AnnotateEfficiency(ts)
                        /\ outcome' = "returned"
                        /\ result' = optimize_tasks_fractional(ts, time)
                        /\ response' = [status |-> 200, body |-> result']
                   ELSE /\ solver' = "0/1"
                        /\ tasks' = AnnotateValue(ts)
                        /\ IF IndexError(ts, PyInt(time))
                           THEN /\ outcome' = "IndexError"
                                /\ result' = NoResult
                                /\ response' = InternalServerError
                           ELSE /\ outcome' = "returned"
                                /\ result' = optimize_tasks(ts, time)
                                /\ response' = [status |-> 200, body |-> result']

NextAPI == do_POST

SpecAPI == InitAPI /\ [][NextAPI]_vars

(***************************************************************************)
(* backend/firebase_connect.py: plans in the in-memory fallback store.      *)
(* _in_memory_storage maps a username to a dict whose "plans" entry is the  *)
(* list of the plans saved for it.  A plan is the caller's plan_data with   *)
(* the created_at stamp added; the stamp is the number of the save, a       *)
(* clock that ticks once per call.                                          *)
(***************************************************************************)
Usernames == {"u", "v"}
PlanData == {"p", "q"}

\* _in_memory_storage.get(username, {}).get('plans', [])
StoredPlans(storage, username) ==
    IF username \in DOMAIN storage /\ "plans" \in DOMAIN storage[username]
    THEN storage[username].plans
    ELSE <<>>

\* data[start:], a start below zero counting from the end
SliceFrom(data, start) ==
    LET from == IF start < 0
                THEN (IF Len(data) + start < 0 THEN 0 ELSE Len(data) + start)
                ELSE (IF start > Len(data) THEN Len(data) ELSE start)
    IN  SubSeq(data, from + 1, Len(data))

\* [{"id": idx, **plan} for idx, plan in enumerate(plans_list)]
WithIds(plans_list) ==
    [idx \in 1..Len(plans_list) |-> SetField(plans_list[idx], "id", idx - 1)]

\* what get_user_plans(username, limit) returns
get_user_plans(storage, username, limit) ==
    LET data == StoredPlans(storage, username)
        plans_list == WithIds(SliceFrom(data, -limit))
    IN  IF data # <<>>
        THEN [success |-> TRUE, plans |-> plans_list, count |-> Len(plans_list)]
        ELSE [success |-> FALSE, plans |-> <<>>, message |-> "No plans found"]

InitStore ==
    /\ EmptyStore
    /\ NoCaller
    /\ NoTransport
    /\ first_result = NoCalls

\* a call of save_optimization_plan(username, plan_data)
SaveOptimizationPlan ==
    /\ Len(saved) < MaxSaves
    /\ \E username \in Usernames, plan_data \in PlanData :
          LET plan == [plan_data |-> plan_data, created_at |-> Len(saved) + 1]
              plans == Append(StoredPlans(in_memory_storage, username), plan)
          IN  /\ in_memory_storage' = SetField(in_memory_storage, username, [plans |-> plans])
              /\ saved' = Append(saved, [username |-> username, plan |-> plan,
                                         return |-> [success |-> TRUE,
                                                     message |-> "Plan saved successfully",
                                                     plan_id |-> Len(plans) - 1]])
    /\ UNCHANGED <<loaded, caller, first_result, transport>>

\* a call of get_user_plans(username, limit)
GetUserPlans ==
    /\ \E username \in Usernames, limit \in 1..MaxLimit :
          loaded' = [username |-> username, limit |-> limit,
                     return |-> get_user_plans(in_memory_storage, username, limit)]
    /\ UNCHANGED <<in_memory_storage, saved, caller, first_result, transport>>

NextStore == SaveOptimizationPlan \/ GetUserPlans

SpecStore == InitStore /\ [][NextStore]_vars

(***************************************************************************)
(* Properties                                                               *)
(***************************************************************************)
\* the sum of f over the positions in S
RECURSIVE SumOver(_, _)
SumOver(S, f) ==
    IF S = {} THEN R(0)
    ELSE LET i == CHOOSE j \in S : TRUE
         IN  RAdd(f[i], SumOver(S \ {i}, f))

InputValues == [i \in DOMAIN tasks |-> TaskValue(tasks[i])]
InputDurations == [i \in DOMAIN tasks |-> tasks[i].duration]

IsInteger(a) == a[2] = 1
Positive(a) == RLt(R(0), a)

Returned(s) == solver = s /\ outcome = "returned"

PositiveCapacity == Positive(available_time)
PositiveDurations == \A i \in DOMAIN tasks : Positive(tasks[i].duration)
NoNegativeDuration == \A i \in DOMAIN tasks : RLe(R(0), tasks[i].duration)
IntegerInputs ==
    /\ IsInteger(available_time) /\ PositiveCapacity
    /\ \A i \in DOMAIN tasks : IsInteger(tasks[i].duration) /\ Positive(tasks[i].duration)

\* the subsets of the tasks whose summed duration is within the capacity
FeasibleSubsets == {S \in SUBSET DOMAIN tasks : RLe(SumOver(S, InputDurations), available_time)}

\* C1. Exact optimality: for positive integer durations and an integer
\* capacity W > 0, the total_value optimize_tasks returns is the greatest
\* summed value (priority x category weight) of any subset of the tasks whose
\* summed duration is at most W.
ExactOptimality ==
    (Returned("0/1") /\ IntegerInputs) =>
        /\ \E S \in FeasibleSubsets : SumOver(S, InputValues) = result.total_value
        /\ \A S \in FeasibleSubsets : RLe(SumOver(S, InputValues), result.total_value)

\* the DP had a choice to make: it returned one task and skipped an earlier one
ExactOptimalityWitness ==
    /\ Returned("0/1") /\ IntegerInputs
    /\ Len(tasks) = 2
    /\ Len(result.optimized_tasks) = 1
    /\ result.optimized_tasks[1].name = tasks[2].name
    /\ Positive(result.total_value)

\* C2. Feasibility: the total_time optimize_tasks returns (the summed
\* durations of the included tasks) is at most the capacity, for positive
\* durations and capacity, fractional ones included.
Feasibility ==
    (Returned("0/1") /\ PositiveCapacity /\ PositiveDurations) =>
        RLe(result.total_time, available_time)

\* C3. Greedy capacity saturation: with capacity W > 0 and no negative
\* duration, optimize_tasks_fractional returns total_time = W when the
\* durations sum to at least W, and otherwise includes every task whole and
\* returns their summed duration.
GreedySaturation ==
    (Returned("fractional") /\ PositiveCapacity /\ NoNegativeDuration) =>
        IF RLe(available_time, SumOver(DOMAIN tasks, InputDurations))
        THEN result.total_time = available_time
        ELSE /\ result.skipped_tasks = <<>>
             /\ Len(result.optimized_tasks) = Len(tasks)
             /\ \A k \in DOMAIN result.optimized_tasks :
                    /\ ~IsPartial(result.optimized_tasks[k])
                    /\ \E i \in DOMAIN tasks : result.optimized_tasks[k] = tasks[i]
             /\ result.total_time = SumOver(DOMAIN tasks, InputDurations)

\* the capacity was filled exactly by a whole task and a partial copy
GreedySaturationWitness ==
    /\ Returned("fractional") /\ PositiveCapacity /\ PositiveDurations
    /\ Len(result.optimized_tasks) = 2
    /\ ~IsPartial(result.optimized_tasks[1])
    /\ IsPartial(result.optimized_tasks[2])
    /\ result.total_time = available_time

\* C4. Fractional dominance: on the same task list and capacity, the
\* total_value of optimize_tasks_fractional is at least that of
\* optimize_tasks.
FractionalDominance ==
    (Returned("0/1") /\ PositiveCapacity /\ PositiveDurations) =>
        RLe(result.total_value,
            optimize_tasks_fractional(tasks, available_time).total_value)

\* optimized_tasks followed by skipped_tasks
Output == result.optimized_tasks \o result.skipped_tasks

\* C5. Partition completeness: optimized_tasks and skipped_tasks together
\* hold every input task exactly once, each as the caller's own record or, for
\* at most one task of the greedy solver, as its partial copy in
\* optimized_tasks.
PartitionCompleteness ==
    outcome = "returned" =>
        /\ Len(Output) = Len(tasks)
        /\ \A i \in DOMAIN tasks :
              Cardinality({k \in DOMAIN Output : Output[k].name = tasks[i].name}) = 1
        /\ \A k \in DOMAIN Output :
              \/ \E i \in DOMAIN tasks : Output[k] = tasks[i]
              \/ /\ solver = "fractional"
                 /\ k <= Len(result.optimized_tasks)
                 /\ IsPartial(Output[k])
        /\ Cardinality({k \in DOMAIN Output : IsPartial(Output[k])}) <= 1

\* the greedy solver returned the partial copy of one task and skipped the other
PartitionCompletenessWitness ==
    /\ outcome = "returned"
    /\ Len(tasks) = 2
    /\ Len(result.optimized_tasks) = 1
    /\ Len(result.skipped_tasks) = 1
    /\ solver = "fractional"
    /\ IsPartial(result.optimized_tasks[1])

\* C6. No in-place mutation: when a solver call on well-formed tasks returns,
\* the caller's task records and task list are as they were before the call
\* (no field added, none changed, same order).
NoInPlaceMutation == [][(outcome' = "returned" /\ PositiveDurations) => tasks' = tasks]_vars

EmptyOrNoTime == Len(tasks) = 0 \/ ~Positive(available_time)

\* C7. Degenerate inputs: called with an empty task list or a capacity <= 0,
\* either solver returns (does not raise) optimized_tasks = [], skipped_tasks =
\* the input tasks in input order, total_time = 0, total_value = 0 and the
\* explanation that nothing was optimized.
DegenerateResult ==
    (solver # "none" /\ EmptyOrNoTime) =>
        /\ outcome = "returned"
        /\ result.optimized_tasks = <<>>
        /\ result.skipped_tasks = tasks
        /\ \A i \in DOMAIN tasks : DOMAIN tasks[i] = {"name", "duration", "priority", "category"}
        /\ result.total_time = R(0)
        /\ result.total_value = R(0)
        /\ Len(result.explanation) = 1
        /\ result.explanation[1].text = "No tasks to optimize or no available time."

\* a solver was called with two tasks and no time
DegenerateResultWitness ==
    /\ solver # "none"
    /\ Len(tasks) = 2
    /\ available_time = R(0)
    /\ outcome = "returned"
    /\ result.skipped_tasks = tasks

\* the positions of the tasks optimize_tasks selected
Selected == {i \in DOMAIN tasks : \E k \in DOMAIN result.optimized_tasks :
                                      result.optimized_tasks[k].name = tasks[i].name}

\* the feasible subsets other than Selected that reach the returned value
OtherOptimal ==
    {T \in FeasibleSubsets : T # Selected /\ SumOver(T, InputValues) = result.total_value}

\* the last position at which the subsets S and T differ
LastDifference(S, T) ==
    LET D == (S \ T) \cup (T \ S) IN CHOOSE i \in D : \A j \in D : j <= i

\* two tasks of the same duration and value, the capacity holding one only
TwoAlike ==
    /\ Len(tasks) = 2
    /\ tasks[1].duration = tasks[2].duration
    /\ TaskValue(tasks[1]) = TaskValue(tasks[2])
    /\ RLe(tasks[1].duration, available_time)
    /\ RLt(available_time, RAdd(tasks[1].duration, tasks[2].duration))

\* C8 as stated. Exact-solver tie-break: among the subsets of the optimal
\* total value optimize_tasks returns the one preferring later-indexed tasks;
\* of two tasks alike in duration and value, with room for one, it includes
\* the later one only.
LaterIndexedPreferred ==
    (Returned("0/1") /\ IntegerInputs) =>
        /\ \A T \in OtherOptimal : LastDifference(Selected, T) \in Selected
        /\ TwoAlike => result.optimized_tasks = <<tasks[2]>>

\* C8 as amended. Among the subsets of the optimal total value optimize_tasks
\* returns the one preferring earlier-indexed tasks: the last task on which it
\* differs from another optimal subset is one it leaves out; of two tasks
\* alike in duration and value, with room for one, it includes the earlier
\* one only.
EarlierIndexedPreferred ==
    (Returned("0/1") /\ IntegerInputs) =>
        /\ \A T \in OtherOptimal : LastDifference(Selected, T) \notin Selected
        /\ TwoAlike => /\ result.optimized_tasks = <<tasks[1]>>
                       /\ result.skipped_tasks = <<tasks[2]>>

\* optimize_tasks returned the first of two alike tasks
EarlierIndexedPreferredWitness ==
    /\ Returned("0/1") /\ IntegerInputs /\ TwoAlike
    /\ OtherOptimal = {{2}}
    /\ result.optimized_tasks = <<tasks[1]>>

\* the result is a selection (the dict of a normal return)
IsSelection(r) == "optimized_tasks" \in DOMAIN r

\* C9. Numeric-domain rejection: called with a non-empty list holding a
\* negative duration and a positive capacity, a solver returns a failure
\* indicator: it neither raises nor returns a selection.
NegativeDurationRejected ==
    (solver # "none" /\ tasks # <<>> /\ PositiveCapacity /\ ~NoNegativeDuration) =>
        /\ outcome = "returned"
        /\ ~IsSelection(result)

\* C10. Every result of optimize_tasks_fractional has the field
\* partial_inclusion, true exactly when optimized_tasks holds a task marked
\* is_partial.
PartialInclusionField ==
    Returned("fractional") =>
        /\ "partial_inclusion" \in DOMAIN result
        /\ result.partial_inclusion <=>
              \E k \in DOMAIN result.optimized_tasks : IsPartial(result.optimized_tasks[k])

\* the parts of the returned explanation of the kind p
Parts(p) == {k \in DOMAIN result.explanation : result.explanation[k].part = p}

\* the explanation reports n selected tasks
ReportsCount(n) ==
    IF solver = "0/1"
    THEN \E k \in Parts("selected") : result.explanation[k].count = n
    ELSE \E k \in Parts("selected_full") :
            \/ Parts("selected_partial") = {} /\ result.explanation[k].count = n
            \/ \E m \in Parts("selected_partial") :
                  result.explanation[k].count + result.explanation[m].count = n

\* the explanation reports the total time and the free time left
ReportsTime ==
    \E k \in Parts(IF solver = "0/1" THEN "selected" ELSE "totals") :
        /\ result.explanation[k].minutes = result.total_time
        /\ result.explanation[k].free = RSub(available_time, result.total_time)

\* C11. Narrator completeness: for a call with a non-empty list of well-formed
\* tasks and a positive capacity, whether or not a task is selected, the
\* explanation reports the number of selected tasks, the total selected time
\* and the free time left, and holds the skipped-task note exactly when
\* skipped_tasks is not empty.
NarratorCompleteness ==
    (outcome = "returned" /\ tasks # <<>> /\ PositiveCapacity /\ PositiveDurations) =>
        /\ ReportsCount(Len(result.optimized_tasks))
        /\ ReportsTime
        /\ Parts("skipped") # {} <=> result.skipped_tasks # <<>>

\* the efficiency C13 and C14 speak of: value / duration, 0 when the duration
\* is not positive
InputEfficiency(i) ==
    IF Positive(tasks[i].duration) THEN RDiv(TaskValue(tasks[i]), tasks[i].duration) ELSE R(0)

\* input task i is considered before input task j
ConsideredBefore(i, j) ==
    \/ RLt(InputEfficiency(j), InputEfficiency(i))
    \/ InputEfficiency(j) = InputEfficiency(i) /\ i < j

\* the position in the input of the task named n
InputIndex(n) == CHOOSE i \in DOMAIN tasks : tasks[i].name = n

\* the positions of optimized_tasks that hold a task marked is_partial
PartialPositions == {k \in DOMAIN result.optimized_tasks : IsPartial(result.optimized_tasks[k])}

\* C13. Greedy partial task: with positive durations, optimized_tasks of
\* optimize_tasks_fractional holds at most one task marked is_partial; it is
\* the last of optimized_tasks, its duration is the capacity the whole tasks
\* before it left, its original_duration is the duration of the input task it
\* copies, its fraction is duration / original_duration and lies strictly
\* between 0 and 1, its value is the original value times the fraction, and
\* every task after it in efficiency order is skipped.
GreedyPartialTask ==
    (Returned("fractional") /\ PositiveDurations) =>
        /\ Cardinality(PartialPositions) <= 1
        /\ \A k \in PartialPositions :
              LET opt == result.optimized_tasks
                  p == opt[k]
                  i == InputIndex(p.name)
              IN  /\ k = Len(opt)
                  /\ p.duration = RSub(available_time, RSum(Durations(SubSeq(opt, 1, k - 1))))
                  /\ p.original_duration = tasks[i].duration
                  /\ p.fraction = RDiv(p.duration, p.original_duration)
                  /\ RLt(R(0), p.fraction) /\ RLt(p.fraction, R(1))
                  /\ p.value = RMul(TaskValue(tasks[i]), p.fraction)
                  /\ \A j \in DOMAIN tasks :
                        ConsideredBefore(i, j) =>
                            \E m \in DOMAIN result.skipped_tasks :
                                result.skipped_tasks[m] = tasks[j]

\* a task was cut to two thirds and the task after it skipped
GreedyPartialTaskWitness ==
    /\ Returned("fractional") /\ PositiveDurations
    /\ Len(result.optimized_tasks) = 1
    /\ IsPartial(result.optimized_tasks[1])
    /\ result.optimized_tasks[1].fraction = Rat(2, 3)
    /\ Len(result.skipped_tasks) = 1

DeterminismAcrossCalls ==
    (outcome = "returned" /\ PositiveDurations /\ PositiveCapacity)
        => /\ first_result[solver].outcome = "returned"
           /\ result = first_result[solver].result

\* the endpoint has answered the request
Answered == response # NoResponse

\* the task has the four fields, in the ranges the endpoint documents
WellFormedTask(t) ==
    /\ {"name", "duration", "priority", "category"} \subseteq DOMAIN t
    /\ IsNumber(t.duration) /\ Positive(t.duration)
    /\ 1 <= t.priority /\ t.priority <= 5
    /\ t.category \in {"work", "health", "learning", "chore", "relaxation"}

\* the request names a non-empty list of such tasks and a positive time
\* (480 minutes when it names none)
WellFormedRequest ==
    /\ "tasks" \in DOMAIN request
    /\ request.tasks # <<>>
    /\ "available_time" \in DOMAIN request => Positive(request.available_time)
    /\ \A i \in DOMAIN request.tasks : WellFormedTask(request.tasks[i])

\* C15: transport validation gate.  Once do_POST has answered, a solver was
\* called only if the request is well formed; a request that is not well
\* formed was answered with status 400 and no solver was called; and a
\* dispatched request with method "fractional" ran optimize_tasks_fractional,
\* one with method "0/1" (or none) ran optimize_tasks.
TransportValidationGate ==
    Answered =>
        /\ solver # "none" => WellFormedRequest
        /\ ~WellFormedRequest => (response.status = 400 /\ solver = "none")
        /\ (solver # "none" /\ "method" \in DOMAIN request /\ request.method = "fractional")
               => (solver = "fractional" /\ response.body = optimize_tasks_fractional(request.tasks, available_time))
        /\ (solver # "none" /\ ("method" \notin DOMAIN request \/ request.method = "0/1"))
               => (solver = "0/1" /\ response.body = optimize_tasks(request.tasks, available_time))

\* the saves made so far for the username, oldest first
SavedFor(username) == SelectSeq(saved, LAMBDA s : s.username = username)

\* the last k of them: each plan with the plan_id its save returned
MostRecent(username, k) ==
    LET mine == SavedFor(username)
    IN  {[plan |-> mine[j].plan, id |-> mine[j].return.plan_id] :
            j \in (Len(mine) - k + 1)..Len(mine)}

\* the plans of a get_user_plans return, each with the id it is reported under
Reported(return) ==
    {[plan |-> Without(return.plans[j], "id"), id |-> return.plans[j].id] :
        j \in DOMAIN return.plans}

\* C16: plans recalled from the in-memory store.  Every call of
\* get_user_plans(username, limit) returns the min(limit, number saved) most
\* recently saved plans of that user and of no other, each under the plan_id
\* that save_optimization_plan returned when it was saved.
RecentPlansRecalled ==
    [][loaded' # loaded =>
        LET n == Len(SavedFor(loaded'.username))
            k == IF loaded'.limit < n THEN loaded'.limit ELSE n
        IN  /\ Len(loaded'.return.plans) = k
            /\ Reported(loaded'.return) = MostRecent(loaded'.username, k)]_vars

====
